---- MODULE Spec2Model ----
(***************************************************************************)
(* Cloud-edge simulation of mobile charging station (MCS) dispatch:        *)
(* rl_mcs.edge_env, rl_mcs.cloud_env, rl_mcs.trainer, rl_mcs.ev and         *)
(* rl_mcs.geo as state machines.                                            *)
(*                                                                          *)
(* Numbers.  Coordinates are points of one meridian, named by their        *)
(* distance in km from a reference point, so that the great-circle         *)
(* distance of two points is the absolute difference of their names.       *)
(* Rewards are counted in hundredths (1.0 is 100).  Battery energy is in   *)
(* kWh.  An optional value is a sequence of length at most one.            *)
(***************************************************************************)
EXTENDS Integers, Sequences, FiniteSets, TLC

VARIABLES
  edge_envs,       \* region id -> EdgeEnv object (Trainer.edge_envs, or one free EdgeEnv)
  lastCall,        \* the last EdgeEnv call made and how it returned; where the
                   \* argument of a step is kept too, action holds it
  config,          \* the configuration values read (CloudConfig, TrainingSchedule, EVConfig)
  allocations,     \* CloudEnv.allocations: region id -> MCS count
  cloud_time_step, \* CloudEnv.time_step
  lastCloudCall,   \* the action of the last CloudEnv.step call
  greedy_call,     \* the last CloudEnv.greedy_action call: its summaries and its result
  train,           \* Trainer.train: where the loop is (pc), its step, the region it is at
  region_order,    \* the keys of Trainer.edge_envs in insertion order
  edge_buffers,    \* Trainer.edge_buffers: region id -> the buffered transitions
  cloud_buffer,    \* Trainer.cloud_buffer
  history,         \* the rollouts and policy updates made so far, with the step of each
  regions,         \* the RegionPolygon list locate_region is given
  located,         \* the last two locate_region calls: their points and results
  ev               \* EVSimulator.run_vehicle: the trajectory, the loop's place, soc, the requests yielded

edgeVars == <<edge_envs, lastCall>>
cloudVars == <<allocations, cloud_time_step, lastCloudCall>>
trainVars == <<train, region_order, edge_buffers, cloud_buffer, history>>
otherVars == <<regions, located, ev>>
vars == <<edge_envs, lastCall, config, allocations, cloud_time_step, lastCloudCall,
          greedy_call, train, region_order, edge_buffers, cloud_buffer, history,
          regions, located, ev>>

---------------------------------------------------------------------------
(* Bounds of the model *)

max_queue_size == 2      \* EdgeConfig.max_queue_size as configured in the model
MaxSteps == 2            \* EdgeEnv.time_step is capped here
MaxArrivals == 2         \* EdgeEnv.arrivals_last_window is capped here
MaxServiceSteps == 8     \* EdgeEnv.time_step is capped here under the baseline policy
MaxCloudSteps == 3       \* CloudEnv.time_step is capped here
MaxSummaries == 3        \* the longest summary list given to greedy_action
MaxInterval == 3         \* the largest allocation_interval, cloud_update_every, edge_sync_every
MaxIterations == 5       \* the largest TrainingSchedule.max_iterations
MaxRegions == 3          \* the longest region list given to locate_region
MaxPoints == 4           \* the longest trajectory given to run_vehicle

(* Program constants *)

region_radius_km == 2
INITIAL_BATTERY_KWH == 80
ASSIGN_COST_KWH == 5
MIN_BATTERY_KWH == 10

---------------------------------------------------------------------------
(* Helpers *)

None == <<>>
Some(x) == <<x>>
IsNone(o) == o = <<>>

Abs(x) == IF x < 0 THEN -x ELSE x
Max(a, b) == IF a >= b THEN a ELSE b
Min(a, b) == IF a <= b THEN a ELSE b

RECURSIVE SumSeq(_)
SumSeq(s) == IF s = <<>> THEN 0 ELSE Head(s) + SumSeq(Tail(s))

---------------------------------------------------------------------------
(* geo.py *)

haversine_km(p1, p2) == Abs(p2 - p1)

\* The (index, distance) pairs of the points within the radius, nearest first.
\* Every caller passes a single point, for which the sort is the identity.
nearest_points_within(points, loc, radius_km) ==
  LET cand == SelectSeq([i \in 1..Len(points) |-> <<i - 1, haversine_km(loc, points[i])>>],
                        LAMBDA c : c[2] <= radius_km)
  IN cand

---------------------------------------------------------------------------
(* edge_env.py *)

Regions == {"A", "B"}
EdgeRegion == "A"

\* Dispatch point lists an EdgeEnv is constructed with.
DispatchConfigs == {<<0>>, <<0, 5>>}

\* The dispatch points of the EdgeEnv whose calls are interleaved freely.
EdgeDispatchPoints == <<0>>

\* Locations of charge requests.
ReqLocs == {1, 4}

ChargeRequests == [loc : ReqLocs, region_id : {EdgeRegion}]

QueueItem(request) == [request |-> request, wait_time |-> 0]

MCSState(loc) == [loc |-> loc, available |-> TRUE, battery_kwh |-> INITIAL_BATTERY_KWH]

EdgeEnv_init(region_id, dispatch_points) ==
  [ region_id            |-> region_id,
    dispatch_points      |-> dispatch_points,
    queue                |-> <<>>,
    time_step            |-> 0,
    arrivals_last_window |-> 0,
    mcs_pool             |-> [i \in 1..Len(dispatch_points) |-> MCSState(dispatch_points[i])] ]

available_count(env) ==
  Cardinality({i \in 1..Len(env.mcs_pool) : env.mcs_pool[i].available})

waits_of(env) == [i \in 1..Len(env.queue) |-> env.queue[i].wait_time]

RECURSIVE MaxSeq(_)
MaxSeq(s) == IF Len(s) = 1 THEN s[1] ELSE Max(Head(s), MaxSeq(Tail(s)))

\* mean_wait and arrival_rate are quotients, kept as numerator and denominator.
observe(env) ==
  LET waits == IF env.queue = <<>> THEN <<0>> ELSE waits_of(env)
  IN [ region_id        |-> env.region_id,
       pending_requests |-> Len(env.queue),
       mean_wait        |-> [num |-> SumSeq(waits), den |-> Len(waits)],
       max_wait         |-> MaxSeq(waits),
       available_mcs    |-> available_count(env),
       time_bin         |-> (env.time_step \div 12) % 24,
       arrival_rate     |-> [num |-> env.arrivals_last_window, den |-> Max(1, env.time_step)],
       candidate_points |-> env.dispatch_points ]

\* add_request with the bound tested one too late.
add_request_late_bound(env, request) ==
  IF Len(env.queue) > max_queue_size
  THEN env
  ELSE [env EXCEPT !.queue = Append(@, QueueItem(request)),
                   !.arrivals_last_window = @ + 1]

\* add_request that counts a dropped arrival.
add_request_counts_drop(env, request) ==
  IF Len(env.queue) >= max_queue_size
  THEN [env EXCEPT !.arrivals_last_window = @ + 1]
  ELSE [env EXCEPT !.queue = Append(@, QueueItem(request)),
                   !.arrivals_last_window = @ + 1]

add_request(env, request) ==
  IF Len(env.queue) >= max_queue_size
  THEN env
  ELSE [env EXCEPT !.queue = Append(@, QueueItem(request)),
                   !.arrivals_last_window = @ + 1]

\* The index of the first available unit of the pool, 0 when there is none.
first_available(pool) ==
  IF \E i \in 1..Len(pool) : pool[i].available
  THEN CHOOSE i \in 1..Len(pool) :
         pool[i].available /\ \A j \in 1..(i - 1) : ~pool[j].available
  ELSE 0

\* _assign_mcs that ignores the battery and always leaves the unit available.
_assign_mcs_no_cooldown(pool, target_point) ==
  LET i == first_available(pool)
  IN IF i = 0
     THEN [ok |-> FALSE, pool |-> pool]
     ELSE [ok   |-> TRUE,
           pool |-> [pool EXCEPT ![i] = [loc         |-> target_point,
                                         available   |-> TRUE,
                                         battery_kwh |-> @.battery_kwh - ASSIGN_COST_KWH]]]

_assign_mcs(pool, target_point) ==
  LET i == first_available(pool)
  IN IF i = 0
     THEN [ok |-> FALSE, pool |-> pool]
     ELSE LET battery == pool[i].battery_kwh - ASSIGN_COST_KWH
          IN [ok   |-> TRUE,
              pool |-> [pool EXCEPT ![i] = [loc         |-> target_point,
                                            available   |-> ~(battery < MIN_BATTERY_KWH),
                                            battery_kwh |-> battery]]]

\* One iteration of the loop over zip(self.queue, action_indices): s is the
\* loop state (queue, mcs_pool, reward, raised), k the position, idx the
\* optional index paired with the entry.
step_pair(s, dispatch_points, k, idx) ==
  LET n == Len(dispatch_points)
      item == s.queue[k]
  IN IF IsNone(idx) \/ idx[1] >= n
     THEN s
     ELSE IF idx[1] < -n
     THEN [s EXCEPT !.raised = TRUE]       \* dispatch_points[idx]: IndexError
     ELSE LET point == IF idx[1] >= 0 THEN dispatch_points[idx[1] + 1]
                                      ELSE dispatch_points[n + idx[1] + 1]
              nearest == nearest_points_within(<<point>>, item.request.loc, region_radius_km)
          IN IF nearest # <<>>
             THEN LET a == _assign_mcs(s.mcs_pool, point)
                  IN IF a.ok
                     THEN [s EXCEPT !.mcs_pool = a.pool,
                                    !.reward = @ + 100 - item.wait_time,
                                    !.queue[k].wait_time = 0]
                     ELSE [s EXCEPT !.reward = @ - 10]
             ELSE [s EXCEPT !.reward = @ - 20]

RECURSIVE step_loop(_, _, _, _)
step_loop(s, dispatch_points, action_indices, k) ==
  IF s.raised \/ k > Min(Len(s.queue), Len(action_indices))
  THEN s
  ELSE step_loop(step_pair(s, dispatch_points, k, action_indices[k]),
                 dispatch_points, action_indices, k + 1)

\* step without the removal of the served entries.
step_keeps_served(env, action) ==
  LET aged == [i \in 1..Len(env.queue) |-> [env.queue[i] EXCEPT !.wait_time = @ + 1]]
      s0 == [queue |-> aged, mcs_pool |-> env.mcs_pool, reward |-> 0, raised |-> FALSE]
      s1 == IF action.given /\ action.list # <<>>
            THEN step_loop(s0, env.dispatch_points, action.list, 1)
            ELSE s0
  IN IF s1.raised
     THEN [env    |-> [env EXCEPT !.queue = s1.queue, !.mcs_pool = s1.mcs_pool],
           reward |-> 0, raised |-> TRUE]
     ELSE [env    |-> [env EXCEPT !.queue = s1.queue,
                                  !.mcs_pool = s1.mcs_pool,
                                  !.time_step = @ + 1],
           reward |-> s1.reward, raised |-> FALSE]

\* EdgeEnv.step: the environment after the call, the reward returned, and
\* whether the call raised instead of returning.  action is
\* [given |-> FALSE] for None, else [given |-> TRUE, list |-> the indices].
step(env, action) ==
  LET aged == [i \in 1..Len(env.queue) |-> [env.queue[i] EXCEPT !.wait_time = @ + 1]]
      s0 == [queue |-> aged, mcs_pool |-> env.mcs_pool, reward |-> 0, raised |-> FALSE]
      s1 == IF action.given /\ action.list # <<>>
            THEN step_loop(s0, env.dispatch_points, action.list, 1)
            ELSE s0
  IN IF s1.raised
     THEN [env    |-> [env EXCEPT !.queue = s1.queue, !.mcs_pool = s1.mcs_pool],
           reward |-> 0, raised |-> TRUE]
     ELSE [env    |-> [env EXCEPT !.queue = SelectSeq(s1.queue, LAMBDA item : item.wait_time > 0),
                                  !.mcs_pool = s1.mcs_pool,
                                  !.time_step = @ + 1],
           reward |-> s1.reward, raised |-> FALSE]

build_summary(env) ==
  [ region_id     |-> env.region_id,
    success_rate  |-> 0,
    average_wait  |-> IF env.queue # <<>>
                      THEN [num |-> SumSeq(waits_of(env)), den |-> Len(env.queue)]
                      ELSE [num |-> 0, den |-> 1],
    arrival_rate  |-> [num |-> env.arrivals_last_window, den |-> Max(1, env.time_step)],
    available_mcs |-> available_count(env),
    queue_length  |-> Len(env.queue) ]

\* reset_window that empties the queue along with the counter.
reset_window_and_queue(env) == [env EXCEPT !.arrivals_last_window = 0, !.queue = <<>>]

reset_window(env) == [env EXCEPT !.arrivals_last_window = 0]

---------------------------------------------------------------------------
(* The parts of the state a component does not use *)

EmptyMap == [r \in {} |-> 0]

NoConfig == config = [unset |-> TRUE]
NoCloud ==
  allocations = EmptyMap /\ cloud_time_step = 0 /\ lastCloudCall = EmptyMap
NoGreedy == greedy_call = [called |-> FALSE, summaries |-> <<>>, action |-> EmptyMap]

NoHistory == [edge_rollouts |-> <<>>, cloud_rollouts |-> <<>>,
              cloud_updates |-> <<>>, edge_updates |-> <<>>]
NoTrainer ==
  /\ train = [pc |-> "idle", step |-> 0, region_idx |-> 0]
  /\ region_order = <<>>
  /\ edge_buffers = EmptyMap
  /\ cloud_buffer = <<>>
  /\ history = NoHistory

NoLocate == located = [calls |-> 0, point |-> 0, result |-> <<>>,
                       prev_point |-> 0, prev_result |-> <<>>]
NoGeo == regions = <<>> /\ NoLocate
NoEv == ev = [pc |-> "idle"]

notEdgeVars == <<config, cloudVars, greedy_call, trainVars, otherVars>>

---------------------------------------------------------------------------
(* A free EdgeEnv under any interleaving of its public calls.  A call that  *)
(* raises ends the run: the exception propagates to the caller, and no     *)
(* caller in the repository catches it.                                    *)

\* The index arguments tried for the one dispatch point: none, the valid
\* index 0, the index 1 past the end, and the negative indices -1 and -2.
OptIndices == {None} \cup {Some(i) : i \in -2..1}

RECURSIVE SeqsUpTo(_, _)
SeqsUpTo(S, n) ==
  IF n = 0 THEN {<<>>}
  ELSE LET shorter == SeqsUpTo(S, n - 1)
       IN shorter \cup {Append(s, x) : s \in {t \in shorter : Len(t) = n - 1}, x \in S}

StepInputs ==
  {[given |-> FALSE, list |-> <<>>]}
    \cup {[given |-> TRUE, list |-> l] : l \in SeqsUpTo(OptIndices, max_queue_size)}

NoAssignment(action) ==
  ~action.given \/ \A k \in 1..Len(action.list) : IsNone(action.list[k])

NoCall == [op |-> "init", region |-> EdgeRegion, raised |-> FALSE,
           noassign |-> FALSE, reward |-> 0, action |-> None]

EdgeInit ==
  /\ edge_envs = [r \in {EdgeRegion} |-> EdgeEnv_init(r, EdgeDispatchPoints)]
  /\ lastCall = NoCall
  /\ NoConfig /\ NoCloud /\ NoGreedy /\ NoTrainer /\ NoGeo /\ NoEv

EdgeAddRequest ==
  \E r \in DOMAIN edge_envs, request \in ChargeRequests :
    /\ ~lastCall.raised
    /\ edge_envs[r].arrivals_last_window < MaxArrivals
    /\ edge_envs' = [edge_envs EXCEPT ![r] = add_request(@, request)]
    /\ lastCall' = [NoCall EXCEPT !.op = "add_request", !.region = r]
    /\ UNCHANGED notEdgeVars

\* zip stops at the shorter of the queue and the indices, so the lists tried
\* are at most one longer than the queue.
EdgeStep ==
  \E r \in DOMAIN edge_envs, action \in StepInputs :
    /\ Len(action.list) <= Len(edge_envs[r].queue) + 1
    /\ ~lastCall.raised
    /\ edge_envs[r].time_step < MaxSteps
    /\ LET res == step(edge_envs[r], action)
       IN /\ edge_envs' = [edge_envs EXCEPT ![r] = res.env]
          /\ lastCall' = [op |-> "step", region |-> r, raised |-> res.raised,
                          noassign |-> NoAssignment(action), reward |-> res.reward,
                          action |-> None]
    /\ UNCHANGED notEdgeVars

EdgeResetWindow ==
  \E r \in DOMAIN edge_envs :
    /\ ~lastCall.raised
    /\ edge_envs' = [edge_envs EXCEPT ![r] = reset_window(@)]
    /\ lastCall' = [NoCall EXCEPT !.op = "reset_window", !.region = r]
    /\ UNCHANGED notEdgeVars

EdgeNext == EdgeAddRequest \/ EdgeStep \/ EdgeResetWindow

SpecEdge == EdgeInit /\ [][EdgeNext]_vars

---------------------------------------------------------------------------
(* agents.py: the baseline edge policy *)

EdgePolicy_act(obs) ==
  [k \in 1..obs.pending_requests |->
     IF obs.candidate_points = <<>> THEN None ELSE Some(0)]

---------------------------------------------------------------------------
(* An EdgeEnv served by the baseline policy while requests keep arriving:  *)
(* observe, EdgePolicy.act, step, as Trainer.edge_rollout calls them.      *)

EdgePolicyStep ==
  \E r \in DOMAIN edge_envs :
    /\ ~lastCall.raised
    /\ edge_envs[r].time_step < MaxServiceSteps
    /\ LET actions == EdgePolicy_act(observe(edge_envs[r]))
           res == step(edge_envs[r], [given |-> TRUE, list |-> actions])
       IN /\ edge_envs' = [edge_envs EXCEPT ![r] = res.env]
          /\ lastCall' = [op |-> "step", region |-> r, raised |-> res.raised,
                          noassign |-> \A k \in 1..Len(actions) : IsNone(actions[k]),
                          reward |-> res.reward,
                          action |-> Some([given |-> TRUE, list |-> actions])]
    /\ UNCHANGED notEdgeVars

ServiceInit ==
  /\ \E dp \in DispatchConfigs :
       edge_envs = [r \in {EdgeRegion} |-> EdgeEnv_init(r, dp)]
  /\ lastCall = NoCall
  /\ NoConfig /\ NoCloud /\ NoGreedy /\ NoTrainer /\ NoGeo /\ NoEv

ServiceNext == EdgeAddRequest \/ EdgePolicyStep \/ EdgeResetWindow

SpecEdgeService == ServiceInit /\ [][ServiceNext]_vars

---------------------------------------------------------------------------
(* Claims about EdgeEnv *)

\* The step is a call on an EdgeEnv: lastCall' tells which.  (A call that
\* changes neither the environments nor lastCall leaves the state as it is.)
EdgeCalled == edge_envs' # edge_envs \/ lastCall' # lastCall

\* C1: in every reachable state of an EdgeEnv, under any interleaving of
\* add_request, step and reset_window, the queue holds at most
\* max_queue_size entries.
C1_QueueBounded ==
  \A r \in DOMAIN edge_envs : Len(edge_envs[r].queue) <= max_queue_size

\* An arrival was offered to a full queue in a fresh window and was dropped.
C1_Witness ==
  \E r \in DOMAIN edge_envs :
    /\ lastCall.op = "add_request" /\ lastCall.region = r
    /\ Len(edge_envs[r].queue) = max_queue_size
    /\ edge_envs[r].arrivals_last_window = 0

\* C2: add_request on a full queue changes nothing (queue, arrivals counter
\* and every other field), and it never raises; on a non-full queue it
\* appends exactly one entry with wait_time 0 at the tail, adds exactly 1 to
\* the arrivals counter and changes nothing else.
C2_AddRequestEffect ==
  [][(lastCall'.op = "add_request" /\ EdgeCalled) =>
       LET r == lastCall'.region
           old == edge_envs[r]
           new == edge_envs'[r]
       IN /\ ~lastCall'.raised
          /\ \A o \in DOMAIN edge_envs \ {r} : edge_envs'[o] = edge_envs[o]
          /\ DOMAIN edge_envs' = DOMAIN edge_envs
          /\ new.time_step = old.time_step
          /\ new.mcs_pool = old.mcs_pool
          /\ new.dispatch_points = old.dispatch_points
          /\ new.region_id = old.region_id
          /\ IF Len(old.queue) = max_queue_size
             THEN /\ new.queue = old.queue
                  /\ new.arrivals_last_window = old.arrivals_last_window
             ELSE /\ Len(new.queue) = Len(old.queue) + 1
                  /\ SubSeq(new.queue, 1, Len(old.queue)) = old.queue
                  /\ new.queue[Len(new.queue)].wait_time = 0
                  /\ new.queue[Len(new.queue)].request \in ChargeRequests
                  /\ new.arrivals_last_window = old.arrivals_last_window + 1
  ]_vars

\* An arrival was accepted behind an entry that has already waited.
C2_Witness ==
  \E r \in DOMAIN edge_envs :
    /\ lastCall.op = "add_request" /\ lastCall.region = r
    /\ Len(edge_envs[r].queue) = 2
    /\ edge_envs[r].queue[1].wait_time > 0
    /\ edge_envs[r].queue[2].wait_time = 0
    /\ edge_envs[r].arrivals_last_window = 1

BatteryTotal(env) ==
  SumSeq([i \in 1..Len(env.mcs_pool) |-> env.mcs_pool[i].battery_kwh])

\* q2 holds entries of q in q's order, each with its wait_time one greater.
AgedSubsequence(q2, q) ==
  \E f \in [1..Len(q2) -> 1..Len(q)] :
    /\ \A i, j \in 1..Len(q2) : i < j => f[i] < f[j]
    /\ \A i \in 1..Len(q2) :
         /\ q2[i].request = q[f[i]].request
         /\ q2[i].wait_time = q[f[i]].wait_time + 1

\* C6: a step whose assignment is absent, empty or all no-assignment removes
\* no entry, keeps the order and leaves every wait_time exactly 1 greater;
\* any step removes at most as many entries as it made successful
\* assignments, and the entries in the queue after it are entries of the
\* queue before it, in order, each with wait_time exactly old + 1.
C6_StepAgesSurvivors ==
  [][(lastCall'.op = "step" /\ EdgeCalled) =>
       LET r == lastCall'.region
           old == edge_envs[r]
           new == edge_envs'[r]
           assigned == (BatteryTotal(old) - BatteryTotal(new)) \div ASSIGN_COST_KWH
       IN /\ lastCall'.noassign =>
               /\ Len(new.queue) = Len(old.queue)
               /\ \A i \in 1..Len(old.queue) :
                    /\ new.queue[i].request = old.queue[i].request
                    /\ new.queue[i].wait_time = old.queue[i].wait_time + 1
          /\ Len(old.queue) - Len(new.queue) <= assigned
          /\ AgedSubsequence(new.queue, old.queue)
  ]_vars

\* C6 for the calls of step that return: the same statement, not required
\* of a call that raised.
C6_ReturnedStepAgesSurvivors ==
  [][(lastCall'.op = "step" /\ EdgeCalled /\ ~lastCall'.raised) =>
       LET r == lastCall'.region
           old == edge_envs[r]
           new == edge_envs'[r]
           assigned == (BatteryTotal(old) - BatteryTotal(new)) \div ASSIGN_COST_KWH
       IN /\ lastCall'.noassign =>
               /\ Len(new.queue) = Len(old.queue)
               /\ \A i \in 1..Len(old.queue) :
                    /\ new.queue[i].request = old.queue[i].request
                    /\ new.queue[i].wait_time = old.queue[i].wait_time + 1
          /\ Len(old.queue) - Len(new.queue) = assigned
          /\ AgedSubsequence(new.queue, old.queue)
  ]_vars

---------------------------------------------------------------------------
(* An EdgeEnv stepped with any list of optional indices, the list kept in  *)
(* lastCall.  For n dispatch points the indices tried are -(n+1) .. n.     *)

IndicesFor(n) == {None} \cup {Some(i) : i \in (0 - (n + 1))..n}

EdgeStepTraced ==
  \E r \in DOMAIN edge_envs, given \in BOOLEAN :
    \E l \in SeqsUpTo(IndicesFor(Len(edge_envs[r].dispatch_points)), max_queue_size) :
      /\ given \/ l = <<>>
      /\ ~lastCall.raised
      /\ edge_envs[r].time_step < MaxSteps
      /\ LET action == [given |-> given, list |-> l]
             res == step(edge_envs[r], action)
         IN /\ edge_envs' = [edge_envs EXCEPT ![r] = res.env]
            /\ lastCall' = [op |-> "step", region |-> r, raised |-> res.raised,
                            noassign |-> NoAssignment(action), reward |-> res.reward,
                            action |-> Some(action)]
      /\ UNCHANGED notEdgeVars

IndicesNext == EdgeAddRequest \/ EdgeStepTraced

SpecEdgeIndices == ServiceInit /\ [][IndicesNext]_vars

\* The step is a call of step whose argument lastCall' holds.
TracedStep == lastCall'.op = "step" /\ EdgeCalled /\ lastCall'.action # None

\* The positions of the queue that the list pairs with an index, and of those
\* the ones whose index is a valid one: present and in 0..n-1.
PairedPositions(env, action) ==
  IF action.given THEN 1..Min(Len(env.queue), Len(action.list)) ELSE {}

ValidIndex(env, idx) ==
  ~IsNone(idx) /\ idx[1] >= 0 /\ idx[1] < Len(env.dispatch_points)

ValidPositions(env, action) ==
  {k \in PairedPositions(env, action) : ValidIndex(env, action.list[k])}

\* q2 holds entries of q in q's order, each aged by one, and among them the
\* entries at the positions of keep.
AgedSubsequenceKeeping(q2, q, keep) ==
  \E f \in [1..Len(q2) -> 1..Len(q)] :
    /\ \A i, j \in 1..Len(q2) : i < j => f[i] < f[j]
    /\ \A i \in 1..Len(q2) :
         /\ q2[i].request = q[f[i]].request
         /\ q2[i].wait_time = q[f[i]].wait_time + 1
    /\ \A k \in keep : \E i \in 1..Len(q2) : f[i] = k

\* C11: a queue entry paired with a missing index or with an index outside
\* 0..(number of dispatch points - 1), negative indices included, is
\* skipped: the call raises no error, the entry stays in the queue with its
\* wait_time one greater, at most as many units are assigned as there are
\* entries with a valid index, and a step none of whose indices is valid
\* returns reward 0 and leaves the MCS pool as it was.
C11_InvalidIndexSkipped ==
  [][TracedStep =>
       LET r == lastCall'.region
           old == edge_envs[r]
           new == edge_envs'[r]
           action == lastCall'.action[1]
           valid == ValidPositions(old, action)
           assigned == (BatteryTotal(old) - BatteryTotal(new)) \div ASSIGN_COST_KWH
       IN /\ ~lastCall'.raised
          /\ AgedSubsequenceKeeping(new.queue, old.queue, (1..Len(old.queue)) \ valid)
          /\ assigned <= Cardinality(valid)
          /\ valid = {} => (lastCall'.reward = 0 /\ new.mcs_pool = old.mcs_pool)
  ]_vars

\* C11 for the indices that are missing or past the end only: the same
\* statement for the calls of step none of whose indices is negative.
C11_MissingOrPastEndSkipped ==
  [][(TracedStep /\ \A k \in 1..Len(lastCall'.action[1].list) :
                       IsNone(lastCall'.action[1].list[k]) \/ lastCall'.action[1].list[k][1] >= 0) =>
       LET r == lastCall'.region
           old == edge_envs[r]
           new == edge_envs'[r]
           action == lastCall'.action[1]
           valid == ValidPositions(old, action)
           assigned == (BatteryTotal(old) - BatteryTotal(new)) \div ASSIGN_COST_KWH
       IN /\ ~lastCall'.raised
          /\ AgedSubsequenceKeeping(new.queue, old.queue, (1..Len(old.queue)) \ valid)
          /\ assigned <= Cardinality(valid)
          /\ valid = {} => (lastCall'.reward = 0 /\ new.mcs_pool = old.mcs_pool)
  ]_vars

\* The pairs of a step as C15 describes them, from position k on: e holds the
\* pool, the reward so far and the positions served so far.  A pair with a
\* valid index whose target is outside the radius of the request's own
\* location adds -0.2; within the radius, the first available unit of the
\* pool (if any) goes to the target, the pair adds 1.0 - 0.01 x the aged
\* wait, and the entry is served; with no unit available it adds -0.1.  What
\* an assignment does to the unit's battery is _assign_mcs's.
RECURSIVE C15_Pairs(_, _, _, _)
C15_Pairs(e, env, action, k) ==
  IF k \notin PairedPositions(env, action) THEN e
  ELSE IF ~ValidIndex(env, action.list[k]) THEN C15_Pairs(e, env, action, k + 1)
  ELSE LET target == env.dispatch_points[action.list[k][1] + 1]
           aged_wait == env.queue[k].wait_time + 1
           within == Abs(target - env.queue[k].request.loc) <= region_radius_km
           unit == first_available(e.pool)
       IN C15_Pairs(IF ~within THEN [e EXCEPT !.reward = @ - 20]
                    ELSE IF unit = 0 THEN [e EXCEPT !.reward = @ - 10]
                    ELSE [pool   |-> _assign_mcs(e.pool, target).pool,
                          reward |-> e.reward + 100 - aged_wait,
                          served |-> e.served \cup {k}],
                    env, action, k + 1)

\* The entries of q at the positions from k on that are not in served, each
\* aged by one.
RECURSIVE AgedUnserved(_, _, _)
AgedUnserved(q, served, k) ==
  IF k > Len(q) THEN <<>>
  ELSE (IF k \in served THEN <<>> ELSE <<[q[k] EXCEPT !.wait_time = @ + 1]>>)
         \o AgedUnserved(q, served, k + 1)

C15_StepAsDescribed(old, new, call) ==
  LET action == call.action[1]
      e == C15_Pairs([pool |-> old.mcs_pool, reward |-> 0, served |-> {}], old, action, 1)
  IN /\ ~call.raised
     /\ call.reward = e.reward
     /\ new.mcs_pool = e.pool
     /\ SelectSeq(new.queue, LAMBDA item : item.wait_time > 0)
          = AgedUnserved(old.queue, e.served, 1)
     /\ new.time_step = old.time_step + 1
     /\ new.arrivals_last_window = old.arrivals_last_window

\* C15: step ages every entry by 1, then for each pair of an entry and a
\* valid index, in queue order: target outside the radius of the request's
\* location adds -0.2 and leaves the entry queued; within the radius with a
\* unit available, the first available unit moves to the target, the reward
\* grows by 1.0 - 0.01 x the aged wait and the entry's wait is reset; within
\* the radius with none available adds -0.1 and leaves the entry queued; the
\* reward returned is the sum of these and time_step grows by exactly 1.
C15_StepRewardAndEffects ==
  [][TracedStep =>
       C15_StepAsDescribed(edge_envs[lastCall'.region], edge_envs'[lastCall'.region], lastCall')
  ]_vars

\* C15 for the calls of step none of whose indices is negative.
C15_NonNegativeStepRewardAndEffects ==
  [][(TracedStep /\ \A k \in 1..Len(lastCall'.action[1].list) :
                       IsNone(lastCall'.action[1].list[k]) \/ lastCall'.action[1].list[k][1] >= 0) =>
       C15_StepAsDescribed(edge_envs[lastCall'.region], edge_envs'[lastCall'.region], lastCall')
  ]_vars

\* C20: the baseline EdgePolicy.act returns one entry for each pending
\* request of the observation; each entry is the index of the candidate
\* dispatch point nearest to that request, or no-assignment when the region
\* has no candidate points.
C20_NearestCandidate ==
  [][TracedStep =>
       LET old == edge_envs[lastCall'.region]
           actions == lastCall'.action[1].list
           n == Len(old.dispatch_points)
       IN /\ lastCall'.action[1].given
          /\ Len(actions) = Len(old.queue)
          /\ \A k \in 1..Len(actions) :
               IF n = 0 THEN IsNone(actions[k])
               ELSE /\ ~IsNone(actions[k])
                    /\ actions[k][1] \in 0..(n - 1)
                    /\ \A j \in 1..n :
                         haversine_km(old.queue[k].request.loc, old.dispatch_points[actions[k][1] + 1])
                           <= haversine_km(old.queue[k].request.loc, old.dispatch_points[j])
  ]_vars

\* C20 without "nearest": one entry for each pending request, each the index
\* 0 of the first candidate point, or no-assignment when there is none.
C20_FirstCandidate ==
  [][TracedStep =>
       LET old == edge_envs[lastCall'.region]
           actions == lastCall'.action[1].list
       IN /\ lastCall'.action[1].given
          /\ Len(actions) = Len(old.queue)
          /\ \A k \in 1..Len(actions) :
               actions[k] = IF old.dispatch_points = <<>> THEN None ELSE Some(0)
  ]_vars

\* C21: arrivals_last_window is the number of add_request calls accepted
\* since the last reset_window, or since construction: it is 0 at
\* construction; an accepted add_request (one made on a queue that is not
\* full) adds 1 and a dropped one nothing; reset_window sets it to 0 and
\* changes nothing else; step leaves it as it is, also when it raises.
\* (observe and build_summary only read the environment.)
C21_ArrivalsCounter ==
  [][EdgeCalled =>
       LET r == lastCall'.region
           old == edge_envs[r]
           new == edge_envs'[r]
       IN /\ lastCall.op = "init" =>
               \A o \in DOMAIN edge_envs : edge_envs[o].arrivals_last_window = 0
          /\ \A o \in DOMAIN edge_envs \ {r} : edge_envs'[o] = edge_envs[o]
          /\ lastCall'.op \in {"add_request", "step", "reset_window"}
          /\ lastCall'.op = "add_request" =>
               /\ Len(new.queue) = Len(old.queue) + 1 <=> Len(old.queue) < max_queue_size
               /\ new.arrivals_last_window =
                    old.arrivals_last_window
                      + (IF Len(new.queue) = Len(old.queue) + 1 THEN 1 ELSE 0)
          /\ lastCall'.op = "reset_window" =>
               /\ new.arrivals_last_window = 0
               /\ new.queue = old.queue /\ new.time_step = old.time_step
               /\ new.mcs_pool = old.mcs_pool
               /\ new.dispatch_points = old.dispatch_points
               /\ new.region_id = old.region_id
          /\ lastCall'.op = "step" =>
               /\ new.arrivals_last_window = old.arrivals_last_window
               /\ observe(new).arrival_rate.num = old.arrivals_last_window
               /\ build_summary(new).arrival_rate.num = old.arrivals_last_window
  ]_vars

\* Two requests are queued, neither has been through a step, and the counter
\* is 1: the window was reset between the two arrivals.
C21_Witness ==
  \E r \in DOMAIN edge_envs :
    /\ lastCall.op = "add_request" /\ lastCall.region = r
    /\ Len(edge_envs[r].queue) = 2
    /\ edge_envs[r].queue[1].wait_time = 0
    /\ edge_envs[r].queue[2].wait_time = 0
    /\ edge_envs[r].time_step = 0
    /\ edge_envs[r].arrivals_last_window = 1

\* The entries of the queue whose wait_time is 0.
ZeroWaits(env) == {i \in 1..Len(env.queue) : env.queue[i].wait_time = 0}

\* C16 as stated: an entry reset to 0 by a successful assignment of step k is
\* not removed by step k, whose filter takes only entries that were at 0
\* before it: after the step the queue holds one entry of wait_time 0 for
\* each assignment the step made, to be removed by the filter of step k+1.
C16_ServedRemovedNextStep ==
  [][(lastCall'.op = "step" /\ EdgeCalled) =>
       LET old == edge_envs[lastCall'.region]
           new == edge_envs'[lastCall'.region]
           assigned == (BatteryTotal(old) - BatteryTotal(new)) \div ASSIGN_COST_KWH
       IN /\ Cardinality(ZeroWaits(new)) = assigned
          /\ Len(old.queue) - Len(new.queue) <= Cardinality(ZeroWaits(old))
  ]_vars

\* C16 as amended: an entry reset to 0 by a successful assignment of step k
\* is removed by the filter of step k itself.  A call of step that returns
\* leaves no entry of wait_time 0 in the queue and has removed exactly as
\* many entries as it made assignments, the others staying in order, each
\* aged by one; only a call that raises before its filter leaves the entries
\* it has served in the queue, at wait_time 0.
C16_ServedRemovedSameStep ==
  [][(lastCall'.op = "step" /\ EdgeCalled) =>
       LET old == edge_envs[lastCall'.region]
           new == edge_envs'[lastCall'.region]
           assigned == (BatteryTotal(old) - BatteryTotal(new)) \div ASSIGN_COST_KWH
       IN IF ~lastCall'.raised
          THEN /\ ZeroWaits(new) = {}
               /\ Len(old.queue) - Len(new.queue) = assigned
               /\ AgedSubsequence(new.queue, old.queue)
               /\ new.time_step = old.time_step + 1
          ELSE /\ Len(new.queue) = Len(old.queue)
               /\ Cardinality(ZeroWaits(new)) = assigned
               /\ new.time_step = old.time_step
  ]_vars

\* A step has served one of two queued requests and returned: the queue
\* holds the other alone, aged to 1.
C16_Witness ==
  \E r \in DOMAIN edge_envs :
    /\ lastCall.op = "step" /\ lastCall.region = r /\ ~lastCall.raised
    /\ lastCall.reward = 99
    /\ edge_envs[r].time_step = 1
    /\ BatteryTotal(edge_envs[r]) = INITIAL_BATTERY_KWH - ASSIGN_COST_KWH
    /\ Len(edge_envs[r].queue) = 1
    /\ edge_envs[r].queue[1].wait_time = 1

---------------------------------------------------------------------------
(* cloud_env.py *)

\* Quotients (average_wait, rewards) as numerator and denominator.
Rat(n, d) == [num |-> n, den |-> d]
RatLess(a, b) == a.num * b.den < b.num * a.den
RatAdd(a, b) == Rat(a.num * b.den + b.num * a.den, a.den * b.den)

CloudEnv_init(region_ids) ==
  [rid \in {region_ids[i] : i \in 1..Len(region_ids)} |-> 1]

\* dict.get(rid, 0)
alloc_get(alloc, rid) == IF rid \in DOMAIN alloc THEN alloc[rid] ELSE 0

\* The allocation loop with the clamp at zero left out.
apply_deltas_unclamped(alloc, action) ==
  [rid \in DOMAIN alloc \cup DOMAIN action |->
     IF rid \in DOMAIN action
     THEN alloc_get(alloc, rid) + action[rid]
     ELSE alloc[rid]]

\* The allocation loop building the map anew from the entries of the action.
apply_deltas_rebuilt(alloc, action) ==
  [rid \in DOMAIN action |-> Max(0, alloc_get(alloc, rid) + action[rid])]

\* The loop over action.items(): the keys of a dict are distinct, so the
\* order of the iteration does not matter.
apply_deltas(alloc, action) ==
  [rid \in DOMAIN alloc \cup DOMAIN action |->
     IF rid \in DOMAIN action
     THEN Max(0, alloc_get(alloc, rid) + action[rid])
     ELSE alloc[rid]]

RECURSIVE SumOver(_, _)
SumOver(S, f) ==
  IF S = {} THEN 0
  ELSE LET x == CHOOSE y \in S : TRUE IN f[x] + SumOver(S \ {x}, f)

RECURSIVE summary_reward(_)
summary_reward(summaries) ==
  IF summaries = <<>> THEN Rat(0, 1)
  ELSE LET h == Head(summaries)
       IN RatAdd(Rat(h.success_rate * 200 * h.average_wait.den - 5 * h.average_wait.num,
                     h.average_wait.den),
                 summary_reward(Tail(summaries)))

\* CloudEnv.step: the allocations after the call and what it returns; the
\* reward is in hundredths.
CloudEnv_step(alloc, action, summaries) ==
  [ allocations |-> apply_deltas(alloc, action),
    reward      |-> RatAdd(Rat(-10 * SumOver(DOMAIN action, [rid \in DOMAIN action |-> Abs(action[rid])]), 1),
                           summary_reward(summaries)),
    info        |-> [i \in 1..Len(summaries) |-> <<summaries[i].region_id, summaries[i].average_wait>>],
    obs         |-> [summaries |-> summaries] ]

\* sorted(summaries, key=average_wait, reverse=True) with the ties turned
\* around, as a reversed ascending sort would leave them.
RECURSIVE sorted_desc_ties_reversed(_)
sorted_desc_ties_reversed(summaries) ==
  IF summaries = <<>> THEN <<>>
  ELSE LET rest == sorted_desc_ties_reversed(Tail(summaries))
           h == Head(summaries)
           before == SelectSeq(rest, LAMBDA x : ~RatLess(x.average_wait, h.average_wait))
           after == SelectSeq(rest, LAMBDA x : RatLess(x.average_wait, h.average_wait))
       IN before \o <<h>> \o after

\* sorted(summaries, key=lambda s: s.average_wait, reverse=True): Python's
\* sort is stable, also with reverse=True, so the summaries of equal wait
\* keep the order of the input.
RECURSIVE sorted_desc(_)
sorted_desc(summaries) ==
  IF summaries = <<>> THEN <<>>
  ELSE LET n == Len(summaries)
           rest == sorted_desc(SubSeq(summaries, 1, n - 1))
           l == summaries[n]
           before == SelectSeq(rest, LAMBDA x : ~RatLess(x.average_wait, l.average_wait))
           after == SelectSeq(rest, LAMBDA x : RatLess(x.average_wait, l.average_wait))
       IN before \o <<l>> \o after

\* The loop over enumerate(sorted_regions), from position idx (0-based) on.
RECURSIVE greedy_loop(_, _, _, _)
greedy_loop(sorted_regions, idx, action, max_transfer) ==
  IF idx >= Len(sorted_regions) THEN action
  ELSE LET rid == sorted_regions[idx + 1].region_id
           set(v) == [r \in DOMAIN action \cup {rid} |-> IF r = rid THEN v ELSE action[r]]
       IN greedy_loop(sorted_regions, idx + 1,
                      IF idx = 0 THEN set(Min(max_transfer, 1))
                      ELSE IF idx = Len(sorted_regions) - 1 THEN set(-1)
                      ELSE action,
                      max_transfer)

greedy_action(summaries, max_transfer) ==
  IF summaries = <<>> THEN EmptyMap
  ELSE greedy_loop(sorted_desc(summaries), 0, EmptyMap, max_transfer)

---------------------------------------------------------------------------
(* A CloudEnv stepped with arbitrary actions *)

CloudRegionIds == <<"A", "B">>        \* the regions the CloudEnv is built with
ActionRegionIds == {"A", "B", "Z"}    \* "Z" is no region of the CloudEnv
Deltas == {-2, -1, 1}

CloudActions == UNION {[D -> Deltas] : D \in SUBSET ActionRegionIds}

Summary(rid, wait) ==
  [region_id |-> rid, success_rate |-> 0, average_wait |-> wait,
   arrival_rate |-> Rat(0, 1), available_mcs |-> 1, queue_length |-> 0]

CloudSummaryInputs == {<<>>, <<Summary("A", Rat(3, 2)), Summary("B", Rat(0, 1))>>}

CloudInit ==
  /\ allocations = CloudEnv_init(CloudRegionIds)
  /\ cloud_time_step = 0
  /\ lastCloudCall = EmptyMap
  /\ edge_envs = EmptyMap /\ lastCall = NoCall
  /\ NoConfig /\ NoGreedy /\ NoTrainer /\ NoGeo /\ NoEv

CloudStep ==
  \E action \in CloudActions, summaries \in CloudSummaryInputs :
    /\ cloud_time_step < MaxCloudSteps
    /\ allocations' = CloudEnv_step(allocations, action, summaries).allocations
    /\ cloud_time_step' = cloud_time_step + 1
    /\ lastCloudCall' = action
    /\ UNCHANGED <<otherVars, edgeVars, config, greedy_call, trainVars>>

CloudNext == CloudStep

SpecCloud == CloudInit /\ [][CloudNext]_vars

\* C3: after any sequence of CloudEnv.step calls with signed deltas, also
\* deltas below minus the current count and deltas for regions the CloudEnv
\* was not built with, every count of the allocation map is >= 0.
C3_AllocationsNonNegative ==
  \A rid \in DOMAIN allocations : allocations[rid] >= 0

\* A delta more negative than the count was applied, to a region of the
\* CloudEnv and to one it was not built with.
C3_Witness ==
  /\ cloud_time_step > 0
  /\ "A" \in DOMAIN lastCloudCall /\ lastCloudCall["A"] = -2 /\ allocations["A"] = 0
  /\ "Z" \in DOMAIN lastCloudCall /\ lastCloudCall["Z"] = -1 /\ allocations["Z"] = 0

\* The step is a call of CloudEnv.step; lastCloudCall' holds its action.
CloudStepped == cloud_time_step' # cloud_time_step \/ allocations' # allocations

\* C17 as stated: CloudEnv.step sets the count of every region that is a
\* key of the action to max(0, old count + delta), leaves the count of every
\* other region and the set of regions of the allocation map as they were,
\* and adds exactly 1 to the step counter.
C17_StepFrame ==
  [][CloudStepped =>
       LET action == lastCloudCall'
       IN /\ DOMAIN allocations' = DOMAIN allocations
          /\ \A rid \in DOMAIN action \cap DOMAIN allocations :
               allocations'[rid] = Max(0, allocations[rid] + action[rid])
          /\ \A rid \in DOMAIN allocations \ DOMAIN action :
               allocations'[rid] = allocations[rid]
          /\ cloud_time_step' = cloud_time_step + 1
  ]_vars

\* C17 as amended: as stated, but a key of the action that is no region of
\* the allocation map is added to the map, with the count max(0, 0 + delta);
\* the set of regions grows by exactly these keys.
C17_StepFrameWithNewKeys ==
  [][CloudStepped =>
       LET action == lastCloudCall'
       IN /\ DOMAIN allocations' = DOMAIN allocations \cup DOMAIN action
          /\ \A rid \in DOMAIN action \cap DOMAIN allocations :
               allocations'[rid] = Max(0, allocations[rid] + action[rid])
          /\ \A rid \in DOMAIN action \ DOMAIN allocations :
               allocations'[rid] = Max(0, action[rid])
          /\ \A rid \in DOMAIN allocations \ DOMAIN action :
               allocations'[rid] = allocations[rid]
          /\ cloud_time_step' = cloud_time_step + 1
  ]_vars

\* The first step had deltas for A and for Z, which the CloudEnv was not
\* built with, and none for B: A is at 0, Z was added at 1, B is still at 1.
C17_Witness ==
  /\ cloud_time_step = 1
  /\ DOMAIN lastCloudCall = {"A", "Z"}
  /\ lastCloudCall["A"] = -1 /\ lastCloudCall["Z"] = 1
  /\ DOMAIN allocations = {"A", "B", "Z"}
  /\ allocations["A"] = 0 /\ allocations["B"] = 1 /\ allocations["Z"] = 1

---------------------------------------------------------------------------
(* CloudEnv.greedy_action applied to lists of summaries, one per region *)

GreedyRegionIds == {"A", "B", "C"}
GreedyWaits == {Rat(1, 1), Rat(5, 1), Rat(10, 1), Rat(3, 2)}
MaxTransfers == {-1, 0, 1, 5}

SummaryLists ==
  {l \in SeqsUpTo({Summary(rid, w) : rid \in GreedyRegionIds, w \in GreedyWaits}, MaxSummaries) :
     \A i, j \in 1..Len(l) : i # j => l[i].region_id # l[j].region_id}

GreedyInit ==
  /\ \E mt \in MaxTransfers : config = [max_transfer_per_interval |-> mt]
  /\ NoGreedy
  /\ edge_envs = EmptyMap /\ lastCall = NoCall
  /\ NoCloud /\ NoTrainer /\ NoGeo /\ NoEv

GreedyCall ==
  \E summaries \in SummaryLists :
    /\ greedy_call' = [called |-> TRUE, summaries |-> summaries,
                       action |-> greedy_action(summaries, config.max_transfer_per_interval)]
    /\ ~greedy_call.called
    /\ UNCHANGED <<otherVars, edgeVars, config, cloudVars, trainVars>>

GreedyNext == GreedyCall

SpecGreedy == GreedyInit /\ [][GreedyNext]_vars

\* C8: greedy_action of no summaries is the empty action.  Of a non-empty
\* list (one summary per region) it is the action with exactly: delta
\* min(max_transfer_per_interval, 1) for the region of highest average wait,
\* the earliest in the input among equals; delta -1 for the region of lowest
\* average wait, the latest in the input among equals, when there are at
\* least two summaries; and no entry for any other region.  Waits
\* A:10, B:1, C:5 give A: +1, B: -1 when max_transfer_per_interval >= 1.
C8_GreedyAction ==
  greedy_call.called =>
    LET l == greedy_call.summaries
        a == greedy_call.action
        n == Len(l)
        mt == config.max_transfer_per_interval
        first == CHOOSE i \in 1..n :
                   /\ \A j \in 1..n : ~RatLess(l[i].average_wait, l[j].average_wait)
                   /\ \A j \in 1..(i - 1) : RatLess(l[j].average_wait, l[i].average_wait)
        last == CHOOSE i \in 1..n :
                   /\ \A j \in 1..n : ~RatLess(l[j].average_wait, l[i].average_wait)
                   /\ \A j \in (i + 1)..n : RatLess(l[i].average_wait, l[j].average_wait)
    IN /\ n = 0 => a = EmptyMap
       /\ n = 1 => a = [r \in {l[1].region_id} |-> Min(mt, 1)]
       /\ n >= 2 =>
            /\ DOMAIN a = {l[first].region_id, l[last].region_id}
            /\ a[l[first].region_id] = Min(mt, 1)
            /\ a[l[last].region_id] = -1
       /\ (l = <<Summary("A", Rat(10, 1)), Summary("B", Rat(1, 1)), Summary("C", Rat(5, 1))>>
             /\ mt >= 1)
            => a = [r \in {"A", "B"} |-> IF r = "A" THEN 1 ELSE -1]

\* greedy_action was applied to three summaries of which the two of highest
\* wait tie, and to three that all tie.
C8_Witness ==
  /\ greedy_call.called
  /\ Len(greedy_call.summaries) = 3
  /\ greedy_call.summaries[1].average_wait = Rat(1, 1)
  /\ greedy_call.summaries[2].average_wait = Rat(5, 1)
  /\ greedy_call.summaries[3].average_wait = Rat(5, 1)
  /\ greedy_call.action[greedy_call.summaries[2].region_id] = 1
  /\ greedy_call.action[greedy_call.summaries[1].region_id] = -1

---------------------------------------------------------------------------
(* agents.py: the baseline cloud policy *)

\* The loop of CloudPolicy.act giving the first region +1 whatever
\* max_transfer_per_interval is.
RECURSIVE policy_loop_uncapped(_, _, _, _)
policy_loop_uncapped(sorted_regions, idx, action, max_transfer) ==
  IF idx = Len(sorted_regions) THEN action
  ELSE LET summary == sorted_regions[idx + 1]
           with(v) == [r \in DOMAIN action \cup {summary.region_id} |->
                         IF r = summary.region_id THEN v ELSE action[r]]
       IN policy_loop_uncapped(sorted_regions, idx + 1,
                               CASE idx = 0 -> with(1)
                                 [] idx # 0 /\ idx = Len(sorted_regions) - 1 -> with(-1)
                                 [] OTHER -> action,
                               max_transfer)

RECURSIVE policy_loop(_, _, _, _)
policy_loop(sorted_regions, idx, action, max_transfer) ==
  IF idx = Len(sorted_regions) THEN action
  ELSE LET summary == sorted_regions[idx + 1]
           with(v) == [r \in DOMAIN action \cup {summary.region_id} |->
                         IF r = summary.region_id THEN v ELSE action[r]]
       IN policy_loop(sorted_regions, idx + 1,
                      CASE idx = 0 -> with(Min(max_transfer, 1))
                        [] idx # 0 /\ idx = Len(sorted_regions) - 1 -> with(-1)
                        [] OTHER -> action,
                      max_transfer)

CloudPolicy_act(obs, max_transfer) ==
  IF obs.summaries = <<>> THEN EmptyMap
  ELSE policy_loop(sorted_desc(obs.summaries), 0, EmptyMap, max_transfer)

---------------------------------------------------------------------------
(* CloudPolicy.act and CloudEnv.greedy_action applied to the same lists of  *)
(* summaries, in which a region may occur more than once, with the same    *)
(* max_transfer_per_interval (the Trainer gives both sim_config.cloud).    *)

AnySummaryLists ==
  SeqsUpTo({Summary(rid, w) : rid \in GreedyRegionIds, w \in GreedyWaits}, MaxSummaries)

PolicyCall ==
  /\ ~greedy_call.called
  /\ \E summaries \in AnySummaryLists :
    /\ greedy_call' =
         [called        |-> TRUE,
          summaries     |-> summaries,
          action        |-> greedy_action(summaries, config.max_transfer_per_interval),
          policy_action |-> CloudPolicy_act([summaries |-> summaries],
                                            config.max_transfer_per_interval)]
    /\ UNCHANGED <<otherVars, edgeVars, config, cloudVars, trainVars>>

PolicyNext == PolicyCall

SpecCloudPolicy == GreedyInit /\ [][PolicyNext]_vars

\* C22: for every list of summaries and every max_transfer_per_interval,
\* CloudPolicy.act on the observation holding the summaries returns the
\* same action as CloudEnv.greedy_action on the summaries.
C22_PolicyActIsGreedyAction ==
  greedy_call.called => greedy_call.policy_action = greedy_call.action

\* Both were applied to three summaries of which the first and the last are
\* of region A, with the highest and the lowest wait: A gets +1 and then -1.
C22_Witness ==
  /\ greedy_call.called
  /\ config.max_transfer_per_interval = 5
  /\ Len(greedy_call.summaries) = 3
  /\ greedy_call.summaries[1] = Summary("A", Rat(10, 1))
  /\ greedy_call.summaries[2] = Summary("B", Rat(5, 1))
  /\ greedy_call.summaries[3] = Summary("A", Rat(1, 1))
  /\ greedy_call.policy_action = [r \in {"A"} |-> -1]

---------------------------------------------------------------------------
(* trainer.py and simulation_runner.py *)

\* SimulationConfig.region_ids: unset (None), or a list of region ids.  None
\* and the empty list are both false where the code reads the value.
RegionIdConfigs == {<<>>, <<"A", "B">>, <<"B">>}

\* The ids of the regions of the boundary file, in the file's order.
BoundaryRegionIds == <<"A", "B">>

\* The dispatch points without a region tag: every region gets them.
TrainDispatchPoints == <<0, 5>>

\* The locations of the requests streamed into one region before training.
StreamedLocs == {<<>>, <<1>>, <<1, 4, 1>>}

RECURSIVE stream_requests_into(_, _)
stream_requests_into(env, locs) ==
  IF locs = <<>> THEN env
  ELSE stream_requests_into(add_request(env, [loc |-> Head(locs), region_id |-> env.region_id]),
                            Tail(locs))

Schedules ==
  [ max_transfer_per_interval : {5},
    allocation_interval       : 1..MaxInterval,
    cloud_update_every        : 1..MaxInterval,
    edge_sync_every           : 1..MaxInterval,
    max_iterations            : 0..MaxIterations ]

\* The state when main() calls trainer.train(): the Trainer built by
\* build_trainer, the requests streamed into the regions' queues.
TrainInit ==
  /\ \E ids \in RegionIdConfigs, cfg \in Schedules :
       LET region_ids == IF ids # <<>> THEN ids ELSE BoundaryRegionIds
           rset == {region_ids[i] : i \in 1..Len(region_ids)}
       IN /\ config = cfg
          /\ region_order = region_ids
          /\ \E streamed \in [rset -> StreamedLocs] :
               edge_envs = [r \in rset |->
                              stream_requests_into(EdgeEnv_init(r, TrainDispatchPoints), streamed[r])]
          /\ allocations = CloudEnv_init(ids)
  /\ cloud_time_step = 0
  /\ lastCloudCall = EmptyMap
  /\ lastCall = NoCall
  /\ NoGreedy
  /\ train = [pc |-> "for", step |-> 0, region_idx |-> 0]
  /\ edge_buffers = EmptyMap
  /\ cloud_buffer = <<>>
  /\ history = NoHistory
  /\ NoGeo /\ NoEv

\* defaultdict(RolloutBuffer): a region's buffer exists from its first use.
buffer_of(buffers, rid) == IF rid \in DOMAIN buffers THEN buffers[rid] ELSE <<>>

\* RolloutBuffer.add that starts the list anew with each transition.
buffer_add_overwrites(buffers, rid, transition) ==
  [r \in DOMAIN buffers \cup {rid} |->
     IF r = rid THEN <<transition>> ELSE buffers[r]]

buffer_add(buffers, rid, transition) ==
  [r \in DOMAIN buffers \cup {rid} |->
     IF r = rid THEN Append(buffer_of(buffers, rid), transition) ELSE buffers[r]]

\* The condition of the cloud rollout with "and step > 0" added, as the
\* update conditions have it.
cloud_rollout_due_after_first(step_no, cfg) ==
  step_no % cfg.allocation_interval = 0 /\ step_no > 0

cloud_rollout_due(step_no, cfg) == step_no % cfg.allocation_interval = 0

\* The condition of the cloud update without "and step > 0".
cloud_update_due_at_zero(step_no, cfg) == step_no % cfg.cloud_update_every = 0

cloud_update_due(step_no, cfg) ==
  step_no % cfg.cloud_update_every = 0 /\ step_no > 0

edge_update_due(step_no, cfg) ==
  step_no % cfg.edge_sync_every = 0 /\ step_no > 0

\* The range with its last round left out.
in_range_one_short(step_no, cfg) == step_no < cfg.max_iterations - 1

\* step in range(self.schedule.max_iterations)
in_range(step_no, cfg) == step_no < cfg.max_iterations

\* for step in range(self.schedule.max_iterations)
TrainLoopHead ==
  /\ train.pc = "for"
  /\ train' = IF in_range(train.step, config)
              THEN [train EXCEPT !.pc = "edges", !.region_idx = 1]
              ELSE [train EXCEPT !.pc = "done"]
  /\ UNCHANGED <<otherVars, edgeVars, config, cloudVars, greedy_call, region_order,
                 edge_buffers, cloud_buffer, history>>

\* self.edge_rollout(region_id), for the next region of self.edge_envs
TrainEdgeRollout ==
  /\ train.pc = "edges"
  /\ train.region_idx <= Len(region_order)
  /\ LET rid == region_order[train.region_idx]
         env == edge_envs[rid]
         obs == observe(env)
         actions == EdgePolicy_act(obs)
         res == step(env, [given |-> TRUE, list |-> actions])
     IN /\ edge_envs' = [edge_envs EXCEPT ![rid] = res.env]
        /\ lastCall' = [op |-> "step", region |-> rid, raised |-> res.raised,
                        noassign |-> \A k \in 1..Len(actions) : IsNone(actions[k]),
                        reward |-> res.reward,
                        action |-> Some([given |-> TRUE, list |-> actions])]
        /\ edge_buffers' = buffer_add(edge_buffers, rid,
                                      [step |-> train.step, obs |-> obs, actions |-> actions,
                                       reward |-> res.reward])
        /\ history' = [history EXCEPT !.edge_rollouts = Append(@, <<train.step, rid>>)]
  /\ train' = [train EXCEPT !.region_idx = @ + 1]
  /\ UNCHANGED <<otherVars, config, cloudVars, greedy_call, region_order, cloud_buffer>>

\* The test of the end of the loop over the regions that lets the loop end
\* before its last region.
edges_finished_one_early(region_idx, order) == region_idx >= Len(order)

\* for region_id in self.edge_envs: the loop is over once every key was visited.
edges_finished(region_idx, order) == region_idx > Len(order)

\* if step % allocation_interval == 0: self.cloud_rollout()
TrainCloudRollout ==
  /\ train.pc = "edges"
  /\ edges_finished(train.region_idx, region_order)
  /\ IF cloud_rollout_due(train.step, config)
     THEN LET summaries == [i \in 1..Len(region_order) |-> build_summary(edge_envs[region_order[i]])]
              cloud_obs == [summaries |-> summaries]
              action == CloudPolicy_act(cloud_obs, config.max_transfer_per_interval)
              res == CloudEnv_step(allocations, action, summaries)
          IN /\ allocations' = res.allocations
             /\ cloud_time_step' = cloud_time_step + 1
             /\ lastCloudCall' = action
             /\ cloud_buffer' = Append(cloud_buffer,
                                       [step |-> train.step, obs |-> cloud_obs, action |-> action])
             /\ history' = [history EXCEPT !.cloud_rollouts = Append(@, train.step)]
     ELSE UNCHANGED <<cloudVars, cloud_buffer, history>>
  /\ train' = [train EXCEPT !.pc = "update_cloud"]
  /\ UNCHANGED <<otherVars, edgeVars, config, greedy_call, region_order, edge_buffers>>

\* if step % cloud_update_every == 0 and step > 0: self._update_cloud()
TrainUpdateCloud ==
  /\ train.pc = "update_cloud"
  /\ IF cloud_update_due(train.step, config)
     THEN /\ history' = [history EXCEPT !.cloud_updates =
                           Append(@, [step |-> train.step, batch |-> cloud_buffer])]
          /\ cloud_buffer' = <<>>
     ELSE UNCHANGED <<cloud_buffer, history>>
  /\ train' = [train EXCEPT !.pc = "update_edges"]
  /\ UNCHANGED <<otherVars, edgeVars, config, cloudVars, greedy_call, region_order, edge_buffers>>

\* The update calls of _update_edges, in the order of self.edge_buffers.items():
\* the regions in the order of their first rollout, which is region_order.
edge_update_calls(buffers, order, step_no) ==
  LET present == SelectSeq(order, LAMBDA r : r \in DOMAIN buffers)
  IN [i \in 1..Len(present) |->
        [step |-> step_no, region |-> present[i], batch |-> buffers[present[i]]]]

\* if step % edge_sync_every == 0 and step > 0: self._update_edges()
TrainUpdateEdges ==
  /\ train.pc = "update_edges"
  /\ IF edge_update_due(train.step, config)
     THEN /\ history' = [history EXCEPT !.edge_updates =
                           @ \o edge_update_calls(edge_buffers, region_order, train.step)]
          /\ edge_buffers' = [r \in DOMAIN edge_buffers |-> <<>>]
     ELSE UNCHANGED <<edge_buffers, history>>
  /\ train' = [train EXCEPT !.pc = "end_round"]
  /\ UNCHANGED <<otherVars, edgeVars, config, cloudVars, greedy_call, region_order, cloud_buffer>>

\* The evaluation and save checkpoints only write to the log; then the next
\* step of the range.
TrainEndRound ==
  /\ train.pc = "end_round"
  /\ train' = [train EXCEPT !.pc = "for", !.step = @ + 1]
  /\ UNCHANGED <<otherVars, edgeVars, config, cloudVars, greedy_call, region_order,
                 edge_buffers, cloud_buffer, history>>

TrainNext ==
  \/ TrainLoopHead
  \/ TrainEdgeRollout
  \/ TrainCloudRollout
  \/ TrainUpdateCloud
  \/ TrainUpdateEdges
  \/ TrainEndRound

SpecTrain == TrainInit /\ [][TrainNext]_vars

\* How often x occurs in the sequence s.
Count(s, x) == Cardinality({i \in 1..Len(s) : s[i] = x})

\* The rounds whose cloud rollout, and whose cloud update, are behind the loop.
RolloutDecided(r) ==
  r < train.step \/ (r = train.step /\ train.pc \in {"update_cloud", "update_edges", "end_round"})
UpdateDecided(r) ==
  r < train.step \/ (r = train.step /\ train.pc \in {"update_edges", "end_round"})

\* C4: the cloud policy's update is called in round r exactly once if r > 0
\* and r mod cloud_update_every = 0 and not at all otherwise: never in
\* round 0, and at rounds e, 2e, 3e, ... below max_iterations.
C4_CloudUpdateRounds ==
  train.pc # "idle" =>
    LET updates == [i \in 1..Len(history.cloud_updates) |-> history.cloud_updates[i].step]
    IN /\ \A r \in 0..MaxIterations :
            Count(updates, r) =
              IF UpdateDecided(r) /\ r > 0 /\ r % config.cloud_update_every = 0 THEN 1 ELSE 0
       /\ Count(updates, 0) = 0
       /\ train.pc = "done" =>
            /\ train.step = config.max_iterations
            /\ {updates[i] : i \in 1..Len(updates)} =
                 {k * config.cloud_update_every : k \in 1..MaxIterations}
                   \cap 1..(config.max_iterations - 1)

\* train has ended with cloud_update_every = 2 and the update called at
\* rounds 2 and 4.
C4_Witness ==
  /\ train.pc = "done"
  /\ config.cloud_update_every = 2
  /\ Len(history.cloud_updates) = 2
  /\ history.cloud_updates[1].step = 2
  /\ history.cloud_updates[2].step = 4

\* C5: with max_iterations >= 1 and a positive allocation_interval, round 0
\* makes exactly one cloud rollout; a round r makes exactly one cloud rollout
\* if r mod allocation_interval = 0 and none otherwise.
C5_CloudRolloutRounds ==
  train.pc # "idle" =>
    /\ \A r \in 0..MaxIterations :
         Count(history.cloud_rollouts, r) =
           IF RolloutDecided(r) /\ r % config.allocation_interval = 0 THEN 1 ELSE 0
    /\ (train.pc = "done" /\ config.max_iterations >= 1) =>
         Count(history.cloud_rollouts, 0) = 1
    /\ cloud_time_step = Len(history.cloud_rollouts)

\* train has ended with allocation_interval = 3 and cloud rollouts in rounds
\* 0 and 3 only.
C5_Witness ==
  /\ train.pc = "done"
  /\ config.allocation_interval = 3
  /\ history.cloud_rollouts = <<0, 3>>
  /\ cloud_time_step = 2

\* The rounds and regions whose edge rollout is behind the loop: region_order[i]
\* in round r.
EdgeRolloutDone(r, i) ==
  \/ r < train.step
  \/ /\ r = train.step
     /\ \/ train.pc = "edges" /\ i < train.region_idx
        \/ train.pc \in {"update_cloud", "update_edges", "end_round"}

\* What is left of train(): the rounds not yet begun, each with a step of
\* the loop per region and five more, less the steps made in this round.
\* It is -1 when train has returned.
StepsLeft ==
  LET n == Len(region_order)
      here == CASE train.pc = "for" -> 0
                [] train.pc = "edges" -> train.region_idx
                [] train.pc = "update_cloud" -> n + 2
                [] train.pc = "update_edges" -> n + 3
                [] train.pc = "end_round" -> n + 4
                [] OTHER -> 1
  IN (config.max_iterations - train.step) * (n + 6) - here

\* train() is at a place of its loop from which one of its steps can be made:
\* the loop head, a region's rollout or the cloud rollout behind the last
\* region, an update, the end of the round.
CanStep ==
  \/ train.pc \in {"for", "update_cloud", "update_edges", "end_round"}
  \/ /\ train.pc = "edges"
     /\ train.region_idx \in 1..(Len(region_order) + 1)
     /\ \A i \in 1..Len(region_order) : region_order[i] \in DOMAIN edge_envs

\* C12: train terminates (every step of it lessens StepsLeft, which is never
\* below -1, and train can make a step until it has returned), after
\* exactly max_iterations rounds numbered 0..max_iterations-1 and no fewer;
\* every round makes exactly one edge rollout for every registered region,
\* each a step of that region's environment; so at the end every region's
\* time_step, 0 at the start, is max_iterations.
C12_RoundsSoFar ==
  LET made == history.edge_rollouts
  IN /\ StepsLeft >= -1
     /\ train.pc # "done" => CanStep
     /\ ~lastCall.raised
     /\ \A r \in 0..MaxIterations, i \in 1..Len(region_order) :
          Count(made, <<r, region_order[i]>>) = IF EdgeRolloutDone(r, i) THEN 1 ELSE 0
     /\ \A k \in 1..Len(made) :
          made[k][1] \in 0..(config.max_iterations - 1)
            /\ \E i \in 1..Len(region_order) : made[k][2] = region_order[i]
     /\ \A rid \in DOMAIN edge_envs :
          edge_envs[rid].time_step = Cardinality({k \in 1..Len(made) : made[k][2] = rid})
     /\ train.pc = "done" =>
          /\ train.step = config.max_iterations
          /\ Len(made) = config.max_iterations * Len(region_order)
          /\ \A rid \in DOMAIN edge_envs :
               edge_envs[rid].time_step = config.max_iterations

C12_TrainRounds ==
  [][StepsLeft' < StepsLeft /\ C12_RoundsSoFar /\ C12_RoundsSoFar']_vars

\* train has ended after 5 rounds over the two regions of the boundary set.
C12_Witness ==
  /\ train.pc = "done"
  /\ train.step = 5
  /\ region_order = <<"A", "B">>
  /\ Len(history.edge_rollouts) = 10
  /\ edge_envs["A"].time_step = 5 /\ edge_envs["B"].time_step = 5

\* C13: a cloud rollout of a round is made only when the edge rollout of
\* every registered region for that round is made, and the summaries it
\* passes on are one per registered region, in the order of registration,
\* each built from that region's environment as its step of this round left
\* it.
C13_CloudRolloutAfterEdges ==
  [][Len(history'.cloud_rollouts) > Len(history.cloud_rollouts) =>
       LET round == train.step
           entry == cloud_buffer'[Len(cloud_buffer')]
           summaries == entry.obs.summaries
       IN /\ history'.cloud_rollouts = Append(history.cloud_rollouts, round)
          /\ {region_order[i] : i \in 1..Len(region_order)} = DOMAIN edge_envs
          /\ \A i \in 1..Len(region_order) :
               Count(history.edge_rollouts, <<round, region_order[i]>>) = 1
          /\ edge_envs' = edge_envs
          /\ entry.step = round
          /\ Len(summaries) = Len(region_order)
          /\ \A i \in 1..Len(region_order) :
               LET env == edge_envs[region_order[i]]
               IN /\ env.time_step = round + 1
                  /\ summaries[i].region_id = region_order[i]
                  /\ summaries[i].queue_length = Len(env.queue)
                  /\ summaries[i].average_wait.num = SumSeq(waits_of(env))
                  /\ summaries[i].available_mcs = available_count(env)
                  /\ summaries[i] = build_summary(env)
  ]_vars

\* The cloud rollout of round 1 was made over two regions; the first has one
\* request left, which has waited through the steps of rounds 0 and 1.
C13_Witness ==
  /\ train.pc = "update_cloud"
  /\ train.step = 1
  /\ Len(region_order) = 2
  /\ cloud_buffer # <<>>
  /\ LET entry == cloud_buffer[Len(cloud_buffer)]
     IN /\ entry.step = 1
        /\ entry.obs.summaries[1].queue_length = 1
        /\ entry.obs.summaries[1].average_wait = Rat(2, 1)

\* C18: in a Trainer built by build_trainer, until the first cloud step the
\* allocation map holds the count 1 for every registered region (every key
\* of edge_envs), also when SimulationConfig.region_ids is unset and the
\* regions are those of the boundary set.
C18_InitialAllocations ==
  (train.pc # "idle" /\ cloud_time_step = 0) =>
    /\ DOMAIN edge_envs \subseteq DOMAIN allocations
    /\ \A rid \in DOMAIN edge_envs : allocations[rid] = 1

RECURSIVE Flatten(_)
Flatten(ss) == IF ss = <<>> THEN <<>> ELSE Head(ss) \o Flatten(Tail(ss))

\* The rounds of the transitions handed to the update calls of a region's
\* edge policy so far, in the order handed over, and then of those still in
\* the region's buffer; the same for the cloud policy.
EdgeTransitionRounds(rid) ==
  LET calls == SelectSeq(history.edge_updates, LAMBDA u : u.region = rid)
      all == Flatten([i \in 1..Len(calls) |-> calls[i].batch]) \o buffer_of(edge_buffers, rid)
  IN [i \in 1..Len(all) |-> all[i].step]

CloudTransitionRounds ==
  LET all == Flatten([i \in 1..Len(history.cloud_updates) |-> history.cloud_updates[i].batch])
               \o cloud_buffer
  IN [i \in 1..Len(all) |-> all[i].step]

\* The rounds whose edge update is behind the loop.
EdgeUpdateDecided(r) == r < train.step \/ (r = train.step /\ train.pc = "end_round")

C19_UpdatesSoFar ==
  /\ \A i \in 1..Len(region_order) :
       LET rid == region_order[i]
           made == {r \in 0..MaxIterations : EdgeRolloutDone(r, i)}
           rounds == EdgeTransitionRounds(rid)
       IN \* every transition is in one update call or in the buffer, once
          /\ Len(rounds) = Cardinality(made)
          /\ \A k \in 1..Len(rounds) : rounds[k] = k - 1
          \* one update call per region in the rounds r > 0, r mod edge_sync_every = 0
          /\ \A r \in 0..MaxIterations :
               Cardinality({k \in 1..Len(history.edge_updates) :
                              history.edge_updates[k].step = r
                                /\ history.edge_updates[k].region = rid})
                 = IF EdgeUpdateDecided(r) /\ r > 0 /\ r % config.edge_sync_every = 0
                   THEN 1 ELSE 0
          \* the buffer is empty right after the update
          /\ (train.pc = "end_round" /\ train.step > 0
                /\ train.step % config.edge_sync_every = 0)
               => buffer_of(edge_buffers, rid) = <<>>
  /\ \A k \in 1..Len(history.edge_updates) :
       \E i \in 1..Len(region_order) : history.edge_updates[k].region = region_order[i]
  /\ CloudTransitionRounds = history.cloud_rollouts
  /\ (train.pc = "update_edges" /\ train.step > 0
        /\ train.step % config.cloud_update_every = 0)
       => cloud_buffer = <<>>

\* C19: in every round r > 0 with r mod edge_sync_every = 0 the edge
\* policy's update is called once for each region, with that region's
\* buffer, and the buffer is empty right afterwards (likewise the cloud
\* buffer after a cloud update); every buffered transition is handed to
\* exactly one update call or is still in its buffer, never lost and never
\* handed over twice; and an update call changes no EdgeEnv and no CloudEnv
\* state.
C19_BuffersAndUpdates ==
  [][/\ C19_UpdatesSoFar /\ C19_UpdatesSoFar'
     /\ Len(history'.edge_updates) > Len(history.edge_updates) =>
          /\ edge_envs' = edge_envs /\ allocations' = allocations
          /\ cloud_time_step' = cloud_time_step
          /\ \A k \in (Len(history.edge_updates) + 1)..Len(history'.edge_updates) :
               /\ history'.edge_updates[k].batch = edge_buffers[history'.edge_updates[k].region]
               /\ edge_buffers'[history'.edge_updates[k].region] = <<>>
     /\ Len(history'.cloud_updates) > Len(history.cloud_updates) =>
          /\ edge_envs' = edge_envs /\ allocations' = allocations
          /\ cloud_time_step' = cloud_time_step
          /\ history'.cloud_updates[Len(history'.cloud_updates)].batch = cloud_buffer
          /\ cloud_buffer' = <<>>
  ]_vars

\* train has ended after 5 rounds with edge_sync_every = 3 and
\* cloud_update_every = 2: each region's policy was updated once, in round
\* 3 with the transitions of rounds 0..3, and that of round 4 is still in
\* the buffer; the cloud policy was updated in rounds 2 and 4.
C19_Witness ==
  /\ train.pc = "done" /\ train.step = 5
  /\ config.edge_sync_every = 3 /\ config.cloud_update_every = 2
  /\ config.allocation_interval = 1
  /\ region_order = <<"A", "B">>
  /\ Len(history.edge_updates) = 2
  /\ Len(history.edge_updates[1].batch) = 4
  /\ Len(edge_buffers["A"]) = 1 /\ edge_buffers["A"][1].step = 4
  /\ Len(history.cloud_updates) = 2
  /\ Len(history.cloud_updates[1].batch) = 3
  /\ cloud_buffer = <<>>

---------------------------------------------------------------------------
(* geo.py: locate_region.  A polygon is the set of the points it contains  *)
(* (shapely's polygon.contains decides that, outside this repository).     *)

\* locate_region that keeps scanning and returns the last region containing
\* the point.
RECURSIVE locate_region_last_match(_, _)
locate_region_last_match(region_list, point) ==
  IF region_list = <<>> THEN None
  ELSE LET n == Len(region_list)
       IN IF point \in region_list[n].polygon
          THEN Some(region_list[n].region_id)
          ELSE locate_region_last_match(SubSeq(region_list, 1, n - 1), point)

RECURSIVE locate_region(_, _)
locate_region(region_list, point) ==
  IF region_list = <<>> THEN None
  ELSE IF point \in Head(region_list).polygon
       THEN Some(Head(region_list).region_id)
       ELSE locate_region(Tail(region_list), point)

GeoPoints == 0..2
GeoRegionIds == <<"A", "B", "C">>

\* The region lists tried: up to MaxRegions regions, each with any set of
\* points as its polygon, so that polygons overlap and leave points out.
RegionLists ==
  UNION {[1..n -> SUBSET GeoPoints] : n \in 0..Min(MaxRegions, Len(GeoRegionIds))}

GeoInit ==
  /\ \E polys \in RegionLists :
       regions = [i \in 1..Len(polys) |-> [region_id |-> GeoRegionIds[i], polygon |-> polys[i]]]
  /\ NoLocate
  /\ edge_envs = EmptyMap /\ lastCall = NoCall
  /\ NoConfig /\ NoCloud /\ NoGreedy /\ NoTrainer /\ NoEv

Locate ==
  \E point \in GeoPoints :
    /\ located.calls < 2
    /\ located' = [calls       |-> located.calls + 1,
                   point       |-> point,
                   result      |-> locate_region(regions, point),
                   prev_point  |-> located.point,
                   prev_result |-> located.result]
    /\ UNCHANGED <<edgeVars, config, cloudVars, greedy_call, trainVars, regions, ev>>

GeoNext == Locate

SpecGeo == GeoInit /\ [][GeoNext]_vars

\* C9: locate_region returns the id of the first region, in the order of
\* the list, whose polygon contains the point (of overlapping polygons the
\* earlier wins), and none when no region contains it; a second call with
\* the same point and the same list returns what the first returned.
C9_LocateFirstMatch ==
  located.calls > 0 =>
    LET hits == {i \in 1..Len(regions) : located.point \in regions[i].polygon}
    IN /\ hits = {} => located.result = None
       /\ hits # {} =>
            \E i \in hits :
              /\ \A j \in hits : i <= j
              /\ located.result = Some(regions[i].region_id)
       /\ (located.calls = 2 /\ located.prev_point = located.point)
            => located.prev_result = located.result

\* A point in the polygons of the second and third region but not of the
\* first was located twice, in the second region.
C9_Witness ==
  /\ located.calls = 2
  /\ located.prev_point = located.point
  /\ Len(regions) = 3
  /\ located.point \notin regions[1].polygon
  /\ located.point \in regions[2].polygon
  /\ located.point \in regions[3].polygon
  /\ located.result = Some("B")

---------------------------------------------------------------------------
(* ev.py and data.py: EVSimulator.run_vehicle.  soc is a quotient of kWh:  *)
(* the energy left over the battery capacity.                               *)

\* The pairs iterate_trips yields: points idx - 1 and idx for idx = 1, 2, ...
\* (positions idx and idx + 1 of a sequence counted from 1).
iterate_trips(points) ==
  [idx \in 1..(Len(points) - 1) |-> <<points[idx], points[idx + 1]>>]

\* soc_threshold = 0.2
soc_threshold == Rat(1, 5)

RatLeq(a, b) == a.num * b.den <= b.num * a.den

\* The body of the loop of run_vehicle for one trip, but a vehicle that has
\* asked once does not ask again.
run_trip_ask_once(e, trip, cfg, region_list) ==
  LET prev_pt == trip[1]
      next_pt == trip[2]
      distance == haversine_km(prev_pt.loc, next_pt.loc)
      energy_used == distance * cfg.energy_kwh_per_km
      soc == Rat(Max(e.soc.num - energy_used, 0), cfg.battery_capacity_kwh)
      region_id == locate_region(region_list, next_pt.loc)
  IN [e EXCEPT !.soc = soc,
               !.loc = next_pt.loc,
               !.region_id = region_id,
               !.trips_done = @ + 1,
               !.soc_trace = Append(@, soc),
               !.requests = IF RatLeq(soc, cfg.soc_threshold) /\ e.requests = <<>>
                            THEN Append(@, [loc |-> next_pt.loc, region_id |-> region_id,
                                            timestamp |-> next_pt.timestamp, soc |-> soc])
                            ELSE @]

\* The body of the loop of run_vehicle for one trip (prev_pt, next_pt):
\* soc -= distance * energy_kwh_per_km / battery_capacity_kwh, floored at 0.
\* region_list is the list the locate_region_fn closure looks the point up in.
run_trip(e, trip, cfg, region_list) ==
  LET prev_pt == trip[1]
      next_pt == trip[2]
      distance == haversine_km(prev_pt.loc, next_pt.loc)
      energy_used == distance * cfg.energy_kwh_per_km
      soc == Rat(Max(e.soc.num - energy_used, 0), cfg.battery_capacity_kwh)
      region_id == locate_region(region_list, next_pt.loc)
  IN [e EXCEPT !.soc = soc,
               !.loc = next_pt.loc,
               !.region_id = region_id,
               !.trips_done = @ + 1,
               !.soc_trace = Append(@, soc),
               !.requests = IF RatLeq(soc, cfg.soc_threshold)
                            THEN Append(@, [loc |-> next_pt.loc, region_id |-> region_id,
                                            timestamp |-> next_pt.timestamp, soc |-> soc])
                            ELSE @]

EvLocs == {0, 3, 4, 9}

\* Region A holds the points 0..4, region B the points 3..8; 9 is in no region.
EvRegions == <<[region_id |-> "A", polygon |-> 0..4], [region_id |-> "B", polygon |-> 3..8]>>

EvConfigs ==
  [energy_kwh_per_km : {1, 2}, battery_capacity_kwh : {10}, soc_threshold : {soc_threshold}]

\* The trajectories: 1 to MaxPoints points, the timestamp of a point its place.
Trajectories ==
  {[i \in 1..Len(l) |-> [timestamp |-> i, loc |-> l[i]]] :
     l \in SeqsUpTo(EvLocs, MaxPoints) \ {<<>>}}

\* run_vehicle up to its loop: soc = 1.0, the region of the first point.
EvInit ==
  /\ regions = EvRegions
  /\ \E cfg \in EvConfigs, points \in Trajectories :
       /\ config = cfg
       /\ ev = [pc |-> "run", points |-> points,
                soc |-> Rat(cfg.battery_capacity_kwh, cfg.battery_capacity_kwh),
                loc |-> points[1].loc,
                region_id |-> locate_region(EvRegions, points[1].loc),
                trips_done |-> 0, soc_trace |-> <<>>, requests |-> <<>>]
  /\ NoLocate
  /\ edge_envs = EmptyMap /\ lastCall = NoCall
  /\ NoCloud /\ NoGreedy /\ NoTrainer

EvTrip ==
  /\ ev.pc = "run"
  /\ ev.trips_done < Len(ev.points) - 1
  /\ ev' = run_trip(ev, iterate_trips(ev.points)[ev.trips_done + 1], config, regions)
  /\ UNCHANGED <<edgeVars, config, cloudVars, greedy_call, trainVars, regions, located>>

EvNext == EvTrip

SpecEv == EvInit /\ [][EvNext]_vars

\* C7: with positive energy per km and battery capacity, soc starts at 1,
\* does not increase from one trip to the next and is never below 0; the
\* requests yielded are, in order, one for each trip whose resulting soc is
\* <= the threshold, made at that trip's end point, and none for any other
\* trip; so after a trip with a request every later trip has one too.
C7_SocAndRequests ==
  ev.pc = "run" =>
    LET n == ev.trips_done
        full == Rat(config.battery_capacity_kwh, config.battery_capacity_kwh)
        before(i) == IF i = 1 THEN full ELSE ev.soc_trace[i - 1]
        low(i) == RatLeq(ev.soc_trace[i], config.soc_threshold)
        asking == {i \in 1..n : low(i)}
    IN /\ Len(ev.soc_trace) = n
       /\ n = 0 => ev.soc = full
       /\ n > 0 => ev.soc = ev.soc_trace[n]
       /\ \A i \in 1..n :
            /\ RatLeq(ev.soc_trace[i], before(i))
            /\ RatLeq(Rat(0, 1), ev.soc_trace[i])
       /\ Len(ev.requests) = Cardinality(asking)
       /\ \A i \in asking :
            LET k == Cardinality({j \in asking : j <= i})
            IN /\ ev.requests[k].timestamp = ev.points[i + 1].timestamp
               /\ ev.requests[k].loc = ev.points[i + 1].loc
               /\ ev.requests[k].soc = ev.soc_trace[i]
       /\ \A i, j \in 1..n : (i < j /\ i \in asking) => j \in asking

\* A vehicle made one trip above the threshold and then two at or below it,
\* the last without moving, and asked at the end of each of the two.
C7_Witness ==
  /\ ev.pc = "run"
  /\ ev.trips_done = 3
  /\ ~RatLeq(ev.soc_trace[1], soc_threshold)
  /\ RatLeq(ev.soc_trace[2], soc_threshold)
  /\ ev.soc_trace[3] = ev.soc_trace[2]
  /\ Len(ev.requests) = 2
  /\ ev.requests[1].timestamp = 3
  /\ ev.requests[2].timestamp = 4

---------------------------------------------------------------------------
(* simulation_runner.py: main() streams the requests of the EV simulator   *)
(* into the environments of the Trainer that build_trainer has built.      *)

MaxStream == 3           \* the longest request stream routed

\* Region A holds the points 0..2, region B the points 3..8; 9 is in no region.
RouteRegions == <<[region_id |-> "A", polygon |-> 0..2], [region_id |-> "B", polygon |-> 3..8]>>

RouteLocs == {1, 4, 9}

\* The requests run_vehicle yields: region_id is what locate found for the
\* point of the request, none when no region holds it.
RoutedRequests ==
  {[loc |-> l, region_id |-> locate_region(RouteRegions, l), timestamp |-> 1, soc |-> Rat(1, 10)] :
     l \in RouteLocs}

\* Routing that hands a request without an environment to the first
\* environment.
route_request_to_first(envs, order, request) ==
  IF ~IsNone(request.region_id) /\ request.region_id[1] \in DOMAIN envs
  THEN [envs EXCEPT ![request.region_id[1]] = add_request(@, request)]
  ELSE [envs EXCEPT ![order[1]] = add_request(@, request)]

\* region_env = trainer.edge_envs.get(request.region_id);
\* if region_env: region_env.add_request(request)
route_request(envs, order, request) ==
  IF ~IsNone(request.region_id) /\ request.region_id[1] \in DOMAIN envs
  THEN [envs EXCEPT ![request.region_id[1]] = add_request(@, request)]
  ELSE envs

\* main() after build_trainer: the environments are as constructed, the
\* stream is at its first request.
RouteInit ==
  /\ \E ids \in RegionIdConfigs :
       LET region_ids == IF ids # <<>> THEN ids ELSE BoundaryRegionIds
       IN /\ region_order = region_ids
          /\ edge_envs = [r \in {region_ids[i] : i \in 1..Len(region_ids)} |->
                            EdgeEnv_init(r, TrainDispatchPoints)]
          /\ allocations = CloudEnv_init(ids)
  /\ \E stream \in SeqsUpTo(RoutedRequests, MaxStream) :
       ev = [pc |-> "stream", requests |-> stream, next |-> 1]
  /\ regions = RouteRegions
  /\ cloud_time_step = 0
  /\ lastCloudCall = EmptyMap
  /\ lastCall = NoCall
  /\ NoConfig /\ NoGreedy /\ NoLocate
  /\ train = [pc |-> "idle", step |-> 0, region_idx |-> 0]
  /\ edge_buffers = EmptyMap
  /\ cloud_buffer = <<>>
  /\ history = NoHistory

\* One iteration of the loop over ev_sim.stream_requests(trajectories, locate)
RouteRequest ==
  /\ ev.pc = "stream"
  /\ ev.next <= Len(ev.requests)
  /\ edge_envs' = route_request(edge_envs, region_order, ev.requests[ev.next])
  /\ ev' = [ev EXCEPT !.next = @ + 1]
  /\ UNCHANGED <<lastCall, config, cloudVars, greedy_call, trainVars, regions, located>>

RouteNext == RouteRequest

SpecRoute == RouteInit /\ [][RouteNext]_vars

\* C14: a streamed request whose region is none, or is no registered region,
\* is added to no queue and changes no environment; a request with the id
\* of a registered region is offered by add_request to that region's
\* environment (appended with wait_time 0 and counted, or dropped when the
\* queue is full) and changes no other environment.
C14_RoutedToOwnRegion ==
  [][ev'.next = ev.next + 1 =>
       LET request == ev.requests[ev.next]
           registered == {region_order[i] : i \in 1..Len(region_order)}
       IN /\ DOMAIN edge_envs' = DOMAIN edge_envs
          /\ DOMAIN edge_envs = registered
          /\ IF IsNone(request.region_id) \/ request.region_id[1] \notin registered
             THEN edge_envs' = edge_envs
             ELSE LET rid == request.region_id[1]
                      old == edge_envs[rid]
                      new == edge_envs'[rid]
                  IN /\ \A o \in registered \ {rid} : edge_envs'[o] = edge_envs[o]
                     /\ new.time_step = old.time_step /\ new.mcs_pool = old.mcs_pool
                     /\ IF Len(old.queue) >= max_queue_size
                        THEN new = old
                        ELSE /\ new.queue = Append(old.queue, [request |-> request, wait_time |-> 0])
                             /\ new.arrivals_last_window = old.arrivals_last_window + 1
  ]_vars

\* With only B registered, a request of region A, one of no region and one
\* of region B were streamed; B's queue holds the one of its own.
C14_Witness ==
  /\ ev.pc = "stream"
  /\ ev.next = 4
  /\ region_order = <<"B">>
  /\ ev.requests[1].region_id = Some("A")
  /\ ev.requests[2].region_id = None
  /\ ev.requests[3].region_id = Some("B")
  /\ Len(edge_envs["B"].queue) = 1
  /\ edge_envs["B"].queue[1].request = ev.requests[3]

====
